---- MODULE Spec2Model ----
(***************************************************************************)
(* A model of run.py: the command-line driver `main` and the example        *)
(* subsampling policy (`consider_ascending_order`, `subsample_dataset`).    *)
(*                                                                          *)
(* Python values are represented as follows.                                *)
(*   - None is the empty tuple, a present value x is the 1-tuple <<x>>      *)
(*     (only for the variables that are None at some point of the run);     *)
(*   - a string argument that may be absent is "None" when absent;          *)
(*   - a pandas table is a sequence of rows [guid, score], `score` being    *)
(*     the row's value in the column named by args.metric;                  *)
(*   - a dataset split is a sequence of examples [uid, label]; Python       *)
(*     position i is TLA+ position i + 1;                                   *)
(*   - a call that raises yields a record whose exc field names the         *)
(*     exception ("None" when it returns normally).                         *)
(***************************************************************************)
EXTENDS Integers, Sequences, FiniteSets, TLC

\* ------------------------------------------------------------------ bounds

\* Metric values of the rows of a bounded metrics table range over 0..MaxScore.
MaxScore == 1
\* Examples in the raw train split of every hub dataset.
TrainLen == 7
\* Examples in the raw validation split(s) of every hub dataset.
ValLen == 4

\* The guid values that occur in the bounded metrics tables: two that are
\* valid positions of every split and one that lies beyond the validation
\* splits.
GuidValues == {0, 1, 5}

\* The table of the concrete scenario: guid 0..9 with confidence values
\* 0.9, 0.1, 0.5, 0.3, 0.8, 0.2, 0.7, 0.6, 0.4, 0.0 (in tenths).
ScenarioScores == <<9, 1, 5, 3, 8, 2, 7, 6, 4, 0>>
ScenarioTable ==
    [i \in 1..Len(ScenarioScores) |-> [guid |-> i - 1, score |-> ScenarioScores[i]]]

\* ----------------------------------------------------------------- helpers

None == <<>>
Some(x) == <<x>>

Range(s) == {s[i] : i \in 1..Len(s)}

Perms(n) == {p \in [1..n -> 1..n] : \A i, j \in 1..n : i # j => p[i] # p[j]}

\* The members of a set of integers, ascending.
Ascending(S) ==
    CHOOSE s \in [1..Cardinality(S) -> S] : \A i, j \in 1..Cardinality(S) : i < j => s[i] < s[j]

HasTies(t) == \E i, j \in 1..Len(t) : i # j /\ t[i].score = t[j].score

\* ------------------------------------------------- consider_ascending_order

SupportedMetrics ==
    {"variability", "confidence", "threshold_closeness", "forgetfulness", "correctness"}

\* A resolver with a default direction instead of the final raise.
consider_ascending_order_fallback(filtering_metric) ==
    IF filtering_metric \in {"confidence", "correctness"}
    THEN [exc |-> "None", value |-> TRUE]
    ELSE [exc |-> "None", value |-> FALSE]

\* A resolver that treats an absent metric as "confidence".
consider_ascending_order_default_metric(filtering_metric) ==
    IF filtering_metric \in {"confidence", "correctness", "None"}
    THEN [exc |-> "None", value |-> TRUE]
    ELSE IF filtering_metric \in {"variability", "threshold_closeness", "forgetfulness"}
    THEN [exc |-> "None", value |-> FALSE]
    ELSE [exc |-> "NotImplementedError", value |-> FALSE]

consider_ascending_order(filtering_metric) ==
    IF filtering_metric = "variability" THEN [exc |-> "None", value |-> FALSE]
    ELSE IF filtering_metric = "confidence" THEN [exc |-> "None", value |-> TRUE]
    ELSE IF filtering_metric = "threshold_closeness" THEN [exc |-> "None", value |-> FALSE]
    ELSE IF filtering_metric = "forgetfulness" THEN [exc |-> "None", value |-> FALSE]
    ELSE IF filtering_metric = "correctness" THEN [exc |-> "None", value |-> TRUE]
    ELSE [exc |-> "NotImplementedError", value |-> FALSE]

\* ------------------------------------------------------- subsample_dataset

\* The flip left out.
apply_worst_ignored(is_ascending, worst) == is_ascending

\* if args.worst: is_ascending = not is_ascending
apply_worst(is_ascending, worst) == IF worst THEN ~is_ascending ELSE is_ascending

\* A sort that always sorts ascending.
sort_values_always_ascending(t, ascending, tb) ==
    LET n == Len(t)
        Before(q, p) ==
            IF t[q].score # t[p].score THEN t[q].score < t[p].score ELSE tb[q] < tb[p]
        argsort == [k \in 1..n |->
                       CHOOSE p \in 1..n : Cardinality({q \in 1..n : Before(q, p)}) = k - 1]
    IN  [k \in 1..n |-> t[argsort[k]]]

\* DataFrame.sort_values(by=[args.metric], ascending=ascending) with the
\* default kind="quicksort": the rows ordered by score in the given
\* direction.  The default sort is not a stable one, so the order of rows
\* with equal scores is the library's: tb ranks the table's positions and
\* rows with equal scores come out by rank.  tb the identity is the order a
\* stable sort gives.
sort_values(t, ascending, tb) ==
    LET n == Len(t)
        Before(q, p) ==
            IF t[q].score # t[p].score
            THEN IF ascending THEN t[q].score < t[p].score ELSE t[q].score > t[p].score
            ELSE tb[q] < tb[p]
        argsort == [k \in 1..n |->
                       CHOOSE p \in 1..n : Cardinality({q \in 1..n : Before(q, p)}) = k - 1]
    IN  [k \in 1..n |-> t[argsort[k]]]

\* A sort with inplace=True: the table itself ends up sorted.
sort_values_inplace(t, sorted) == sorted

\* The table the caller passed, after sort_values: inplace defaults to False
\* and the table is left as it was.
sort_values_self(t, sorted) == t

\* The fraction rounded to the nearest integer instead of truncated.
num_samples_rounded(L) == (3319 * L + 5000) \div 10000

\* int(0.3319 * len(dataset)).  The double product truncates to this
\* quotient for every length below 10000, which covers the lengths here.
num_samples(L) == (3319 * L) \div 10000

\* DataFrame.head(n): the first n rows, all of them when there are fewer.
head(s, n) == SubSeq(s, 1, IF n < Len(s) THEN n ELSE Len(s))

\* The loop running over the rows fetched, range(num_samples + 1).
collect_indices_all_fetched(selected, n) ==
    IF n + 1 <= Len(selected)
    THEN [exc |-> "None", indices |-> [k \in 1..(n + 1) |-> selected[k].guid]]
    ELSE [exc |-> "IndexError", indices |-> [k \in 1..Len(selected) |-> selected[k].guid]]

\* for idx in range(num_samples): indices.append(int(selected.iloc[idx]["guid"]))
\* selected.iloc[idx] raises IndexError at the first idx beyond the rows of
\* selected; the guids appended until then are lost with the frame.
collect_indices(selected, n) ==
    IF n <= Len(selected)
    THEN [exc |-> "None", indices |-> [k \in 1..n |-> selected[k].guid]]
    ELSE [exc |-> "IndexError", indices |-> [k \in 1..Len(selected) |-> selected[k].guid]]

\* A select that skips the positions the dataset does not have.
select_skipping(ds, indices) ==
    LET valid == SelectSeq(indices, LAMBDA i : i >= 0 /\ i < Len(ds))
    IN  [exc |-> "None", value |-> [k \in 1..Len(valid) |-> ds[valid[k] + 1]]]

\* A select that takes positions modulo the length of the dataset.
select_wrapping(ds, indices) ==
    IF Len(ds) = 0 /\ Len(indices) > 0
    THEN [exc |-> "IndexError", value |-> <<>>]
    ELSE [exc |-> "None",
          value |-> [k \in 1..Len(indices) |-> ds[(indices[k] % Len(ds)) + 1]]]

\* Dataset.select(indices): a new dataset holding the examples at the given
\* positions, in the given order; IndexError when a position is not one of
\* the dataset.
select(ds, indices) ==
    IF \A k \in 1..Len(indices) : indices[k] >= 0 /\ indices[k] < Len(ds)
    THEN [exc |-> "None", value |-> [k \in 1..Len(indices) |-> ds[indices[k] + 1]]]
    ELSE [exc |-> "IndexError", value |-> <<>>]

\* The dataset the caller passed, after select: select returns a new
\* dataset and leaves the one it is called on as it was.
select_self(ds, indices) == ds

\* The frame of a call of subsample_dataset when it is left: its arguments,
\* the exception it raised ("None" when it returned), the calls it made, its
\* locals (None when never assigned), the value returned, and its two
\* arguments as the call left them.  a is args, metrics the table passed as
\* train_dy_metrics, ds the dataset passed as dataset.
subsample_dataset(a, metrics, ds, tb) ==
    LET resolved == consider_ascending_order(a.metric)
        entry == [metric |-> a.metric, worst |-> a.worst,
                  train_dy_metrics |-> metrics, dataset |-> ds,
                  exc |-> resolved.exc, calls |-> <<"consider_ascending_order">>,
                  is_ascending |-> None, sorted_scores |-> None,
                  num_samples |-> None, selected |-> None, indices |-> None,
                  sub_dataset |-> None,
                  train_dy_metrics_after |-> metrics,
                  dataset_after |-> ds]
    IN  IF resolved.exc # "None" THEN entry
        ELSE
        LET is_ascending == apply_worst(resolved.value, a.worst)
            sorted_scores == sort_values(metrics, is_ascending, tb)
            n == num_samples(Len(ds))
            selected == head(sorted_scores, n + 1)
            collected == collect_indices(selected, n)
            sorted ==
                [entry EXCEPT
                    !.calls = entry.calls \o <<"sort_values", "head", "iloc">>,
                    !.is_ascending = Some(is_ascending),
                    !.sorted_scores = Some(sorted_scores),
                    !.num_samples = Some(n),
                    !.selected = Some(selected),
                    !.train_dy_metrics_after =
                        sort_values_self(metrics, sorted_scores)]
        IN  IF collected.exc # "None" THEN [sorted EXCEPT !.exc = collected.exc]
            ELSE
            LET sub == select(ds, collected.indices)
                done == [sorted EXCEPT
                            !.calls = sorted.calls \o <<"select">>,
                            !.indices = Some(collected.indices),
                            !.exc = sub.exc,
                            !.dataset_after = select_self(ds, collected.indices)]
            IN  IF sub.exc # "None" THEN done
                ELSE [done EXCEPT !.sub_dataset = Some(sub.value)]

\* -------------------------------------------------------------------- main

VARIABLES
    module_name,                \* __name__: "__main__" when run.py is run as a script
    args,                       \* the parsed script arguments
    training_args,              \* the parsed TrainingArguments
    full_pkl,                   \* the table stored in resources/full.pkl, once read
    tiebreak,                   \* how this build's sort orders that table's equal scores
    pc,                         \* main's position
    exc,                        \* the exception that ended main, or "None"
    dataset_id,
    eval_split,
    dataset,                    \* the loaded dataset: split name -> examples
    train_dy_metrics,
    train_dataset,
    eval_dataset,
    train_dataset_featurized,
    eval_dataset_featurized,
    is_ascending,               \* main's local of lines 189-191
    idx,                        \* main's local of line 246
    frames,                     \* the calls of subsample_dataset so far
    trace                       \* the calls main has made so far

vars == <<module_name, args, training_args, full_pkl, tiebreak, pc, exc, dataset_id, eval_split,
          dataset, train_dy_metrics, train_dataset, eval_dataset,
          train_dataset_featurized, eval_dataset_featurized, is_ascending, idx,
          frames, trace>>

\* choices= of --metric.
metric_choices ==
    {"threshold_closeness", "confidence", "variability", "correctness", "forgetfulness"}

\* The command lines' --task, --dataset and --model.
Targets ==
    { [task |-> "nli", dataset |-> "None", model |-> "google/electra-small-discriminator"],
      [task |-> "qa", dataset |-> "None", model |-> "google/electra-small-discriminator"],
      [task |-> "nli", dataset |-> "snli", model |-> "google/electra-small-discriminator"],
      [task |-> "nli", dataset |-> "glue:mnli", model |-> "trained_model/checkpoint-1500"],
      [task |-> "qa", dataset |-> "squad", model |-> "trained_model/checkpoint-3000"],
      [task |-> "nli", dataset |-> "train.jsonl", model |-> "trained_model/checkpoint-1500"],
      [task |-> "nli", dataset |-> "scenario.json", model |-> "trained_model/checkpoint-3000"] }

\* The --metric values of the command lines: the five choices, the option
\* left out, and a name that is none of the choices.
MetricArgs == metric_choices \cup {"None", "accuracy"}

\* The tables resources/full.pkl may hold: one row per example, keyed by
\* guid, in the order the examples were written (guid ascending).
Tables ==
    {[i \in 1..Cardinality(G) |-> [guid |-> Ascending(G)[i], score |-> f[Ascending(G)[i]]]] :
        G \in SUBSET GuidValues, f \in [GuidValues -> 0..MaxScore]}
    \cup {ScenarioTable}

\* The orders the sort may give to rows with equal scores.
TieBreaks(t) ==
    IF HasTies(t) THEN Perms(Len(t)) ELSE {[i \in 1..Len(t) |-> i]}

\* pd.read_pickle('resources/full.pkl'): the file's table, the same one at
\* every read of a run.
read_pickle == IF full_pkl = None THEN Tables ELSE {full_pkl[1]}

\* The sort of this build, the same one at every call of a run.
SortOf(t) == IF tiebreak = None THEN TieBreaks(t) ELSE {tiebreak[1]}

\* str.endswith on the --dataset values.
EndsWith(s, suffix) ==
    \/ suffix = ".json" /\ s \in {"scenario.json"}
    \/ suffix = ".jsonl" /\ s \in {"train.jsonl"}

\* str.split(':') on the --dataset values.
SplitColon(s) == IF s = "glue:mnli" THEN <<"glue", "mnli">> ELSE <<s>>

\* str(args.model).split('-')[-1] on the --model values.
LastDashSegment(s) ==
    IF s = "google/electra-small-discriminator" THEN "discriminator"
    ELSE IF s = "trained_model/checkpoint-1500" THEN "1500"
    ELSE "3000"

\* int() of those segments.
ParseInt(s) ==
    IF s = "1500" THEN [exc |-> "None", value |-> 1500]
    ELSE IF s = "3000" THEN [exc |-> "None", value |-> 3000]
    ELSE [exc |-> "ValueError", value |-> 0]

\* The examples of a raw split: uid tells the split and the position the
\* example had in it; SNLI's splits hold an example without a label.
RawSplit(base, len, unlabelled) ==
    [i \in 1..len |->
        [uid |-> base + i - 1,
         label |-> IF unlabelled /\ i = 2 THEN -1 ELSE (i - 1) % 3]]

\* datasets.load_dataset(*dataset_id)
load_dataset(id) ==
    IF id = <<"glue", "mnli">>
    THEN [split \in {"train", "validation_matched", "validation_mismatched"} |->
             IF split = "train" THEN RawSplit(100, TrainLen, FALSE)
             ELSE IF split = "validation_matched" THEN RawSplit(200, ValLen, FALSE)
             ELSE RawSplit(300, ValLen, FALSE)]
    ELSE [split \in {"train", "validation"} |->
             IF split = "train" THEN RawSplit(100, TrainLen, id = <<"snli">>)
             ELSE RawSplit(200, ValLen, id = <<"snli">>)]

\* datasets.load_dataset('json', data_files=args.dataset): every example
\* of the file lands in the train split.
load_json(file) ==
    [split \in {"train"} |->
        IF file = "scenario.json" THEN RawSplit(100, Len(ScenarioScores), FALSE)
        ELSE RawSplit(100, TrainLen, FALSE)]

\* The datasets an importer passes to subsample_dataset.
CallerDatasets ==
    {RawSplit(100, TrainLen, FALSE), RawSplit(200, ValLen, FALSE),
     RawSplit(100, Len(ScenarioScores), FALSE)}

default_datasets == [qa |-> <<"squad">>, nli |-> <<"snli">>]

\* dataset.filter(lambda ex: ex['label'] != -1) on every split
filter_labelled(d) ==
    [split \in DOMAIN d |-> SelectSeq(d[split], LAMBDA ex : ex.label # -1)]

\* Dataset.map(prepare, batched=True, remove_columns=column_names)
featurize(ds) == [k \in 1..Len(ds) |-> [features_of |-> ds[k].uid]]

\* range(k)
PyRange(k) == [i \in 1..k |-> i - 1]

\* lines 190-191: if args.worst: is_ascending = not is_ascending
main_apply_worst(asc, worst) == IF worst THEN ~asc ELSE asc

\* run.py run as a script: main is about to parse the command line.
InitScript ==
    /\ module_name = "__main__"
    \* --max_train_samples and --max_eval_samples (0: not given) are given on
    \* command lines without --subset
    /\ \E target \in Targets, metric \in MetricArgs, worst, subset, eval_train \in BOOLEAN,
          limit \in {0, 1} :
          args = [task |-> target.task, dataset |-> target.dataset, model |-> target.model,
                  metric |-> metric, worst |-> worst, subset |-> subset,
                  eval_train |-> eval_train,
                  max_train_samples |-> IF subset THEN 0 ELSE limit,
                  max_eval_samples |-> IF subset THEN 0 ELSE limit]
    /\ training_args \in [do_train : BOOLEAN, do_eval : BOOLEAN]
    /\ pc = "parse_args"

\* run.py imported as a module (the guard of lines 268-269 keeps main from
\* running): a caller is about to call subsample_dataset with an args object
\* of its own making.
InitImport ==
    /\ module_name = "run"
    /\ \E metric \in MetricArgs, worst \in BOOLEAN :
          args = [task |-> "nli", dataset |-> "None",
                  model |-> "google/electra-small-discriminator",
                  metric |-> metric, worst |-> worst, subset |-> TRUE,
                  eval_train |-> FALSE, max_train_samples |-> 0, max_eval_samples |-> 0]
    /\ training_args = [do_train |-> FALSE, do_eval |-> FALSE]
    /\ pc = "call_subsample_dataset"

Init ==
    /\ InitScript \/ InitImport
    /\ full_pkl = None
    /\ tiebreak = None
    /\ exc = "None"
    /\ dataset_id = None
    /\ eval_split = "None"
    /\ dataset = <<>>
    /\ train_dy_metrics = None
    /\ train_dataset = None
    /\ eval_dataset = None
    /\ train_dataset_featurized = None
    /\ eval_dataset_featurized = None
    /\ is_ascending = None
    /\ idx = None
    /\ frames = <<>>
    /\ trace = <<>>

Raise(e) == pc' = "raised" /\ exc' = e

\* line 103: argparse ends the run on a --metric that is none of the choices.
ParseArgs ==
    /\ pc = "parse_args"
    /\ IF args.metric \in metric_choices \cup {"None"}
       THEN pc' = "dataset_selection" /\ exc' = exc
       ELSE Raise("SystemExit")
    /\ UNCHANGED <<module_name, args, training_args, full_pkl, tiebreak, dataset_id, eval_split,
                   dataset, train_dy_metrics, train_dataset, eval_dataset,
                   train_dataset_featurized, eval_dataset_featurized, is_ascending,
                   idx, frames, trace>>

\* lines 105-122
DatasetSelection ==
    /\ pc = "dataset_selection"
    /\ IF args.dataset = "None"
       THEN \* None has no endswith
            /\ Raise("AttributeError")
            /\ UNCHANGED <<dataset_id, eval_split, dataset>>
       ELSE IF EndsWith(args.dataset, ".json") \/ EndsWith(args.dataset, ".jsonl")
       THEN /\ dataset_id' = None
            /\ dataset' = load_json(args.dataset)
            /\ eval_split' = "train"
            /\ pc' = "preprocess" /\ exc' = exc
       ELSE LET id == IF args.dataset # "None" THEN SplitColon(args.dataset)
                      ELSE default_datasets[args.task]
            IN  /\ dataset_id' = id
                /\ eval_split' = IF id = <<"glue", "mnli">> THEN "validation_matched"
                                 ELSE "validation"
                /\ dataset' = load_dataset(id)
                /\ pc' = "preprocess" /\ exc' = exc
    /\ UNCHANGED <<module_name, args, training_args, full_pkl, tiebreak, train_dy_metrics,
                   train_dataset, eval_dataset, train_dataset_featurized,
                   eval_dataset_featurized, is_ascending, idx, frames, trace>>

\* lines 124-155
Preprocess ==
    /\ pc = "preprocess"
    /\ dataset' = IF dataset_id = <<"snli">> THEN filter_labelled(dataset) ELSE dataset
    /\ pc' = "train_branch"
    /\ UNCHANGED <<module_name, args, training_args, full_pkl, tiebreak, exc, dataset_id, eval_split,
                   train_dy_metrics, train_dataset, eval_dataset,
                   train_dataset_featurized, eval_dataset_featurized, is_ascending,
                   idx, frames, trace>>

\* lines 156-170
TrainBranch ==
    /\ pc = "train_branch"
    /\ IF ~training_args.do_train
       THEN /\ pc' = "eval_branch"
            /\ UNCHANGED <<exc, dataset, train_dy_metrics, train_dataset,
                           train_dataset_featurized, frames, trace, full_pkl, tiebreak>>
       ELSE
       \E table \in (IF args.subset THEN read_pickle ELSE {<<>>}) :
       \E tb \in (IF args.subset THEN SortOf(table) ELSE {<<>>}) :
       LET whole == dataset["train"]
           frame == subsample_dataset(args, table, whole, tb)
           subsampled == IF args.subset THEN frame.exc ELSE "None"
           kept == IF args.subset /\ frame.exc = "None" THEN frame.sub_dataset[1]
                   ELSE whole
           limited == IF args.max_train_samples # 0
                      THEN select(kept, PyRange(args.max_train_samples))
                      ELSE [exc |-> "None", value |-> kept]
           called == (IF args.subset THEN <<"read_pickle">> \o frame.calls ELSE <<>>)
           selects == IF args.max_train_samples # 0 THEN <<"select">> ELSE <<>>
       IN  /\ IF args.subset
              THEN /\ full_pkl' = Some(table)
                   /\ tiebreak' = Some(tb)
                   /\ train_dy_metrics' = Some(frame.train_dy_metrics_after)
                   /\ dataset' = [dataset EXCEPT !["train"] = frame.dataset_after]
                   /\ frames' = Append(frames, frame)
              ELSE UNCHANGED <<full_pkl, tiebreak, train_dy_metrics, dataset, frames>>
           /\ IF subsampled # "None"
              THEN /\ Raise(subsampled)
                   /\ train_dataset' = Some(whole)
                   /\ trace' = trace \o called
                   /\ UNCHANGED train_dataset_featurized
              ELSE IF limited.exc # "None"
              THEN /\ Raise(limited.exc)
                   /\ train_dataset' = Some(kept)
                   /\ trace' = trace \o called \o selects
                   /\ UNCHANGED train_dataset_featurized
              ELSE /\ pc' = "eval_branch" /\ exc' = exc
                   /\ train_dataset' = Some(limited.value)
                   /\ train_dataset_featurized' = Some(featurize(limited.value))
                   /\ trace' = trace \o called \o selects \o <<"map_train">>
    /\ UNCHANGED <<module_name, args, training_args, dataset_id, eval_split,
                   eval_dataset, eval_dataset_featurized, is_ascending, idx>>

\* lines 171-181
EvalBranch ==
    /\ pc = "eval_branch"
    /\ IF ~training_args.do_eval
       THEN /\ pc' = "trainer"
            /\ UNCHANGED <<exc, dataset, train_dy_metrics, eval_dataset, frames, trace,
                           full_pkl, tiebreak>>
       ELSE
       LET split == IF args.eval_train THEN "train" ELSE eval_split
           whole == dataset[split]
       IN  IF ~args.subset
           THEN /\ eval_dataset' = Some(whole)
                /\ pc' = "pdb"
                /\ UNCHANGED <<exc, dataset, train_dy_metrics, frames, trace,
                               full_pkl, tiebreak>>
           ELSE \E table \in read_pickle : \E tb \in SortOf(table) :
                LET frame == subsample_dataset(args, table, whole, tb)
                IN  /\ full_pkl' = Some(table)
                    /\ tiebreak' = Some(tb)
                    /\ train_dy_metrics' = Some(frame.train_dy_metrics_after)
                    /\ dataset' = [dataset EXCEPT ![split] = frame.dataset_after]
                    /\ frames' = Append(frames, frame)
                    /\ trace' = trace \o <<"read_pickle">> \o frame.calls
                    /\ IF frame.exc # "None"
                       THEN Raise(frame.exc) /\ eval_dataset' = Some(whole)
                       ELSE /\ pc' = "pdb" /\ exc' = exc
                            /\ eval_dataset' = frame.sub_dataset
    /\ UNCHANGED <<module_name, args, training_args, dataset_id, eval_split,
                   train_dataset, train_dataset_featurized, eval_dataset_featurized,
                   is_ascending, idx>>

\* line 184, import pdb; pdb.set_trace(): the run stops in the debugger,
\* and whoever sits at it lets it go on
PdbContinue ==
    /\ pc = "pdb"
    /\ pc' = "eval_featurize"
    /\ UNCHANGED <<module_name, args, training_args, full_pkl, tiebreak, exc, dataset_id, eval_split,
                   dataset, train_dy_metrics, train_dataset, eval_dataset,
                   train_dataset_featurized, eval_dataset_featurized, is_ascending,
                   idx, frames, trace>>

\* or quits it
PdbQuit ==
    /\ pc = "pdb"
    /\ Raise("BdbQuit")
    /\ UNCHANGED <<module_name, args, training_args, full_pkl, tiebreak, dataset_id, eval_split,
                   dataset, train_dy_metrics, train_dataset, eval_dataset,
                   train_dataset_featurized, eval_dataset_featurized, is_ascending,
                   idx, frames, trace>>

\* lines 186-198
EvalFeaturize ==
    /\ pc = "eval_featurize"
    /\ LET limited == IF args.max_eval_samples # 0
                      THEN select(eval_dataset[1], PyRange(args.max_eval_samples))
                      ELSE [exc |-> "None", value |-> eval_dataset[1]]
           selects == IF args.max_eval_samples # 0 THEN <<"select">> ELSE <<>>
           resolved == consider_ascending_order(args.metric)
       IN  IF limited.exc # "None"
           THEN /\ Raise(limited.exc)
                /\ trace' = trace \o selects
                /\ UNCHANGED <<eval_dataset, eval_dataset_featurized, is_ascending>>
           ELSE IF resolved.exc # "None"
           THEN /\ Raise(resolved.exc)
                /\ eval_dataset' = Some(limited.value)
                /\ trace' = trace \o selects \o <<"consider_ascending_order">>
                /\ UNCHANGED <<eval_dataset_featurized, is_ascending>>
           ELSE /\ pc' = "trainer" /\ exc' = exc
                /\ eval_dataset' = Some(limited.value)
                /\ is_ascending' = Some(main_apply_worst(resolved.value, args.worst))
                /\ eval_dataset_featurized' = Some(featurize(limited.value))
                /\ trace' = trace \o selects \o <<"consider_ascending_order", "map_eval">>
    /\ UNCHANGED <<module_name, args, training_args, full_pkl, tiebreak, dataset_id, eval_split,
                   dataset, train_dy_metrics, train_dataset, train_dataset_featurized,
                   idx, frames>>

\* lines 201-239
TrainerTrain ==
    /\ pc = "trainer"
    /\ pc' = "evaluate"
    /\ trace' = IF training_args.do_train THEN trace \o <<"train", "save_model">>
                ELSE trace
    /\ UNCHANGED <<module_name, args, training_args, full_pkl, tiebreak, exc, dataset_id, eval_split,
                   dataset, train_dy_metrics, train_dataset, eval_dataset,
                   train_dataset_featurized, eval_dataset_featurized, is_ascending,
                   idx, frames>>

\* lines 241-246
Evaluate ==
    /\ pc = "evaluate"
    /\ IF ~training_args.do_eval
       THEN pc' = "done" /\ UNCHANGED <<exc, idx, trace>>
       ELSE LET step == ParseInt(LastDashSegment(args.model))
            IN  /\ trace' = Append(trace, "evaluate")
                /\ IF step.exc # "None"
                   THEN Raise(step.exc) /\ UNCHANGED idx
                   ELSE /\ pc' = "done" /\ exc' = exc
                        /\ idx' = Some(step.value \div 1500 - 1)
    /\ UNCHANGED <<module_name, args, training_args, full_pkl, tiebreak, dataset_id, eval_split,
                   dataset, train_dy_metrics, train_dataset, eval_dataset,
                   train_dataset_featurized, eval_dataset_featurized, is_ascending,
                   frames>>

\* lines 31-48, called by an importer of the module on a table and a
\* dataset it holds
CallSubsampleDataset ==
    /\ pc = "call_subsample_dataset"
    /\ \E table \in Tables, whole \in CallerDatasets : \E tb \in TieBreaks(table) :
          LET frame == subsample_dataset(args, table, whole, tb)
          IN  /\ tiebreak' = Some(tb)
              /\ train_dy_metrics' = Some(frame.train_dy_metrics_after)
              /\ frames' = Append(frames, frame)
              /\ trace' = trace \o frame.calls
              /\ IF frame.exc # "None" THEN Raise(frame.exc)
                 ELSE pc' = "returned" /\ exc' = exc
    /\ UNCHANGED <<module_name, args, training_args, full_pkl, dataset_id, eval_split, dataset,
                   train_dataset, eval_dataset, train_dataset_featurized,
                   eval_dataset_featurized, is_ascending, idx>>

Next ==
    \/ CallSubsampleDataset
    \/ ParseArgs
    \/ DatasetSelection
    \/ Preprocess
    \/ TrainBranch
    \/ EvalBranch
    \/ PdbContinue
    \/ PdbQuit
    \/ EvalFeaturize
    \/ TrainerTrain
    \/ Evaluate

Spec == Init /\ [][Next]_vars

\* -------------------------------------------------------------- properties

\* The calls of subsample_dataset made so far.
Frames == Range(frames)

Returned(f) == f.exc = "None"

\* floor(0.3319 * L)
FloorOfFraction(L) == (3319 * L) \div 10000

\* The documented direction: ascending for confidence and correctness,
\* descending for the other three, the opposite with worst set.
DocumentedAscending(metric, worst) == (metric \in {"confidence", "correctness"}) # worst

\* x may stand before y in a table sorted in the given direction.
InOrder(ascending, x, y) == IF ascending THEN x <= y ELSE x >= y

\* The score of the row of table t that carries guid g.
ScoreOfGuid(t, g) == t[CHOOSE i \in 1..Len(t) : t[i].guid = g].score

GuidsOf(t) == {t[i].guid : i \in 1..Len(t)}

\* Table t sorted by score in the given direction by a stable sort: rows
\* with equal scores in their order in t.
StablySorted(t, ascending) ==
    LET n == Len(t)
        Before(q, p) ==
            \/ t[q].score # t[p].score /\ InOrder(ascending, t[q].score, t[p].score)
            \/ t[q].score = t[p].score /\ q < p
        place == [k \in 1..n |->
                     CHOOSE p \in 1..n : Cardinality({q \in 1..n : Before(q, p)}) = k - 1]
    IN  [k \in 1..n |-> t[place[k]]]

\* C1: whenever subsample_dataset returns, it returns n = floor(0.3319 * L)
\* examples, the k-th being the source example at the position named by the
\* guid of the k-th row of the table sorted by the metric in the documented
\* direction: the selected rows are distinct rows of the table, in sorted
\* order, and no row left out (the extra row fetched among them) sorts
\* strictly before a selected one.  On the scenario table with metric
\* confidence and ten examples the guids are 9, 1, 5, and 0, 4, 6 with worst.
C1_SelectsHeadOfSortedTable ==
    \A f \in Frames : Returned(f) =>
        LET t == f.train_dy_metrics
            n == FloorOfFraction(Len(f.dataset))
            asc == DocumentedAscending(f.metric, f.worst)
            ind == f.indices[1]
            sub == f.sub_dataset[1]
        IN  /\ Len(ind) = n
            /\ Len(sub) = n
            /\ \A k \in 1..n : ind[k] \in GuidsOf(t)
            /\ \A k \in 1..n : sub[k] = f.dataset[ind[k] + 1]
            /\ \A k, l \in 1..n :
                  k < l => /\ ind[k] # ind[l]
                           /\ InOrder(asc, ScoreOfGuid(t, ind[k]), ScoreOfGuid(t, ind[l]))
            /\ \A k \in 1..n : \A i \in 1..Len(t) :
                  t[i].guid \notin Range(ind) =>
                      InOrder(asc, ScoreOfGuid(t, ind[k]), t[i].score)
            /\ (t = ScenarioTable /\ f.metric = "confidence"
                   /\ Len(f.dataset) = Len(ScenarioScores))
               => ind = IF f.worst THEN <<0, 4, 6>> ELSE <<9, 1, 5>>

\* A call on the scenario table with worst set has returned guids 0, 4, 6
\* and left a fourth row fetched out.
C1_Witness ==
    \E f \in Frames :
        /\ Returned(f)
        /\ f.train_dy_metrics = ScenarioTable
        /\ f.metric = "confidence" /\ f.worst
        /\ f.indices = Some(<<0, 4, 6>>)
        /\ Len(f.selected[1]) = 4
        /\ [k \in 1..3 |-> f.sub_dataset[1][k].uid] = <<100, 104, 106>>

\* C2 as stated: a call with a supported metric on a dataset of length L > 0
\* and a table that has rows, with guids that all are positions of the
\* dataset, returns exactly floor(0.3319 * L) examples, however many rows the
\* table has.
C2_ReturnsFloorWhateverTheRows ==
    \A f \in Frames :
        (/\ f.metric \in SupportedMetrics
         /\ Len(f.dataset) > 0
         /\ Len(f.train_dy_metrics) > 0
         /\ \A g \in GuidsOf(f.train_dy_metrics) : g < Len(f.dataset))
        => /\ Returned(f)
           /\ Len(f.sub_dataset[1]) = FloorOfFraction(Len(f.dataset))

\* C2 amended: a call that returns returns exactly floor(0.3319 * L)
\* examples and was given a table of at least that many rows; a call with a
\* supported metric on a table of fewer rows raises IndexError and returns
\* nothing; a call with a supported metric, a table of at least that many
\* rows and guids that all are positions of the dataset returns.
C2_ReturnsFloorGivenEnoughRows ==
    \A f \in Frames :
        LET n == FloorOfFraction(Len(f.dataset))
            rows == Len(f.train_dy_metrics)
        IN  /\ Returned(f) => Len(f.sub_dataset[1]) = n /\ rows >= n
            /\ (f.metric \in SupportedMetrics /\ rows < n)
               => f.exc = "IndexError" /\ f.sub_dataset = None
            /\ (/\ f.metric \in SupportedMetrics
                /\ rows >= n
                /\ \A g \in GuidsOf(f.train_dy_metrics) : g < Len(f.dataset))
               => Returned(f)

\* A call on a dataset of six examples has returned one example of a table
\* of two rows or more.
C2_Witness ==
    \E f \in Frames :
        /\ Returned(f)
        /\ Len(f.dataset) = 6
        /\ Len(f.train_dy_metrics) >= 2
        /\ Len(f.sub_dataset[1]) = 1

\* C3: a call of subsample_dataset with one of the five metrics does not
\* raise NotImplementedError and, worst not set, sorts ascending exactly for
\* confidence and correctness; a call with any other metric, the absent one
\* included, raises NotImplementedError having called nothing but the
\* resolver: no direction, no sorted table, no indices, no dataset.  The same
\* holds of the evaluation branch of main, and the error ends the run.
C3_ResolverTotal ==
    /\ \A f \in Frames :
          IF f.metric \in SupportedMetrics
          THEN /\ f.exc # "NotImplementedError"
               /\ f.is_ascending # None
               /\ ~f.worst => f.is_ascending[1] = (f.metric \in {"confidence", "correctness"})
          ELSE /\ f.exc = "NotImplementedError"
               /\ f.calls = <<"consider_ascending_order">>
               /\ f.is_ascending = None /\ f.sorted_scores = None
               /\ f.selected = None /\ f.indices = None /\ f.sub_dataset = None
    /\ (is_ascending # None /\ ~args.worst)
       => is_ascending[1] = (args.metric \in {"confidence", "correctness"})
    /\ is_ascending # None => args.metric \in SupportedMetrics
    /\ exc = "NotImplementedError" <=>
          /\ pc = "raised"
          /\ args.metric \notin SupportedMetrics
          /\ trace # <<>>
          /\ trace[Len(trace)] = "consider_ascending_order"

\* A call of subsample_dataset with a metric name that is none of the five
\* has raised NotImplementedError.
C3_Witness ==
    \E f \in Frames : f.metric = "accuracy" /\ f.exc = "NotImplementedError" /\ pc = "raised"

\* C4: the direction subsample_dataset sorts in, and the direction the
\* evaluation branch of main computes, is with worst set the negation of
\* what it is for the same metric with worst not set (ascending for
\* confidence and correctness, descending for the rest); and the sorted
\* table is in that direction.
C4_WorstNegatesDirection ==
    /\ \A f \in Frames : f.is_ascending # None =>
          /\ f.is_ascending[1] = IF f.worst THEN ~DocumentedAscending(f.metric, FALSE)
                                 ELSE DocumentedAscending(f.metric, FALSE)
          /\ \A k \in 1..(Len(f.sorted_scores[1]) - 1) :
                InOrder(f.is_ascending[1], f.sorted_scores[1][k].score,
                        f.sorted_scores[1][k + 1].score)
    /\ is_ascending # None =>
          is_ascending[1] = IF args.worst THEN ~DocumentedAscending(args.metric, FALSE)
                            ELSE DocumentedAscending(args.metric, FALSE)

\* A run with worst set has sorted a table of differing scores in
\* subsample_dataset and has computed the direction in the evaluation branch.
C4_Witness ==
    /\ args.worst
    /\ is_ascending # None
    /\ \E f \in Frames :
          /\ f.worst /\ f.is_ascending # None
          /\ \E i, j \in 1..Len(f.train_dy_metrics) :
                f.train_dy_metrics[i].score # f.train_dy_metrics[j].score

\* The guids of the first n rows of table t stably sorted.
StableSelection(t, ascending, n) == [k \in 1..n |-> StablySorted(t, ascending)[k].guid]

\* C5 as stated: the guids a call selects are those of the first n rows of
\* the table sorted with rows of equal metric value kept in their order in
\* the table.
C5_StableTieBreak ==
    \A f \in Frames : Returned(f) =>
        f.indices[1] = StableSelection(f.train_dy_metrics, f.is_ascending[1],
                                       FloorOfFraction(Len(f.dataset)))

\* C5 amended: the metric values of the rows a call selects are, in order,
\* those of the first n rows of the stably sorted table, and when no two rows
\* of the table have the same metric value so are the guids; two calls of a
\* run on the same table, policy and dataset select the same guids in the
\* same order.
C5_DeterminedUpToTies ==
    /\ \A f \in Frames : Returned(f) =>
          LET t == f.train_dy_metrics
              n == FloorOfFraction(Len(f.dataset))
              stable == StableSelection(t, DocumentedAscending(f.metric, f.worst), n)
          IN  /\ Len(f.indices[1]) = n
              /\ \A k \in 1..n : f.indices[1][k] \in GuidsOf(t)
              /\ \A k \in 1..n : ScoreOfGuid(t, f.indices[1][k]) = ScoreOfGuid(t, stable[k])
              /\ ~HasTies(t) => f.indices[1] = stable
    /\ \A f, g \in Frames :
          (/\ f.train_dy_metrics = g.train_dy_metrics
           /\ f.metric = g.metric /\ f.worst = g.worst
           /\ f.dataset = g.dataset)
          => f.indices = g.indices /\ f.sub_dataset = g.sub_dataset

\* The training and the evaluation branch of a run have both called
\* subsample_dataset on the same inputs, and the guids selected are not the
\* ones a stable sort selects.
C5_Witness ==
    /\ Len(frames) = 2
    /\ frames[1].dataset = frames[2].dataset
    /\ Returned(frames[2])
    /\ HasTies(frames[2].train_dy_metrics)
    /\ frames[2].indices[1] #
          StableSelection(frames[2].train_dy_metrics, frames[2].is_ascending[1],
                          FloorOfFraction(Len(frames[2].dataset)))

\* C6: whenever subsample_dataset returns, every selected guid is in
\* range(L), L the length of the source dataset, and no guid is selected
\* twice.
C6_SelectionInRangeNoDuplicates ==
    \A f \in Frames : Returned(f) =>
        /\ \A k \in 1..Len(f.indices[1]) :
              f.indices[1][k] >= 0 /\ f.indices[1][k] < Len(f.dataset)
        /\ \A k, l \in 1..Len(f.indices[1]) : k # l => f.indices[1][k] # f.indices[1][l]

\* A call has returned a selection of two guids or more from a table with a
\* guid that is no position of the dataset.
C6_Witness ==
    \E f \in Frames :
        /\ Returned(f)
        /\ Len(f.indices[1]) >= 2
        /\ \E g \in GuidsOf(f.train_dy_metrics) : g >= Len(f.dataset)

\* C7: when one of the first n rows of the sorted table carries a guid that
\* is no position of the source dataset, the call raises IndexError and
\* returns no dataset; the error ends the run where it is raised: nothing is
\* featurized, trained or evaluated after it.
C7_OutOfRangeGuidRaises ==
    /\ \A f \in Frames :
          (/\ f.sorted_scores # None
           /\ \E k \in 1..FloorOfFraction(Len(f.dataset)) :
                 /\ k <= Len(f.sorted_scores[1])
                 /\ f.sorted_scores[1][k].guid >= Len(f.dataset))
          => f.exc = "IndexError" /\ f.sub_dataset = None
    /\ \A k \in 1..Len(frames) :
          frames[k].exc # "None" =>
             /\ k = Len(frames)
             /\ pc = "raised"
             /\ exc = frames[k].exc
             /\ trace[Len(trace)] \in {"consider_ascending_order", "iloc", "select"}

\* The evaluation branch of a run has called subsample_dataset on a table
\* with rows enough, and the call has raised IndexError out of select.
C7_Witness ==
    /\ training_args.do_eval
    /\ pc = "raised" /\ exc = "IndexError"
    /\ eval_dataset_featurized = None
    /\ \E f \in Frames :
          /\ f.exc = "IndexError"
          /\ f.indices # None
          /\ Len(f.indices[1]) >= 1
          /\ f.dataset = dataset[eval_split]

\* C8: a run without --dataset that gets past the selection of the dataset
\* has loaded the default dataset of its task, SNLI for nli and SQuAD for qa.
C8_DefaultDatasetUsed ==
    (/\ module_name = "__main__"
     /\ args.dataset = "None"
     /\ pc \notin {"parse_args", "dataset_selection"}
     /\ exc # "SystemExit")
    => /\ exc # "AttributeError"
       /\ dataset_id = (IF args.task = "nli" THEN <<"snli">> ELSE <<"squad">>)
       /\ DOMAIN dataset # {}

\* C9: a call of subsample_dataset, returning or raising, leaves the table
\* and the dataset it was given as they were, and so they are in main after
\* the call.
C9_InputsUnchanged ==
    /\ \A f \in Frames :
          /\ f.train_dy_metrics_after = f.train_dy_metrics
          /\ f.dataset_after = f.dataset
    /\ (frames # <<>> /\ full_pkl # None) =>
          /\ train_dy_metrics = full_pkl
          /\ \A f \in Frames :
                /\ f.train_dy_metrics = full_pkl[1]
                /\ \E split \in DOMAIN dataset : dataset[split] = f.dataset

\* A call in main has returned having sorted the table into another order,
\* and another has raised.
C9_Witness ==
    /\ full_pkl # None
    /\ Len(frames) = 2
    /\ Returned(frames[1])
    /\ frames[1].sorted_scores[1] # frames[1].train_dy_metrics
    /\ ~Returned(frames[2])

InTrace(call) == \E k \in 1..Len(trace) : trace[k] = call

\* C10: a run of main with do_eval gets to featurize the evaluation dataset
\* and to evaluate only with one of the five metrics, --subset given or not;
\* with another metric it ends in NotImplementedError before either; a run
\* with do_train only and without --subset never calls the resolver.
C10_EvalNeedsMetric ==
    /\ (InTrace("map_eval") \/ InTrace("evaluate")) => args.metric \in SupportedMetrics
    /\ (training_args.do_eval /\ pc \in {"trainer", "evaluate", "done"})
       => args.metric \in SupportedMetrics /\ InTrace("map_eval")
    /\ (training_args.do_eval /\ exc = "NotImplementedError")
       => pc = "raised" /\ ~InTrace("map_eval") /\ ~InTrace("evaluate")
    /\ (training_args.do_train /\ ~training_args.do_eval /\ ~args.subset)
       => ~InTrace("consider_ascending_order") /\ exc # "NotImplementedError"

\* A run with do_train and do_eval, without --subset and without --metric,
\* has featurized the training dataset and has ended in NotImplementedError
\* in the evaluation branch.
C10_Witness ==
    /\ training_args.do_train /\ training_args.do_eval
    /\ ~args.subset /\ args.metric = "None"
    /\ InTrace("map_train")
    /\ pc = "raised" /\ exc = "NotImplementedError"

====
